---------------------------- MODULE Spec2Model ----------------------------
(***************************************************************************)
(* A model of the idle game in src/src/main.rs: the progression engine     *)
(* (GameState and its operations), the key/tick handlers of App, and the   *)
(* select loop of run_app.                                                 *)
(*                                                                         *)
(* Number representation.  The program keeps amounts of gold, rates,       *)
(* costs and multipliers in f64.  The model keeps them as f64 values too:  *)
(* sign, exponent and 53-bit significand, with the operations +, -, *, /   *)
(* and the comparisons of IEEE 754 rounding to nearest, so that every      *)
(* amount of the model is bit for bit the amount the program holds.  An    *)
(* Instant is a count of milliseconds on the monotonic clock, a Duration a *)
(* count of milliseconds.                                                  *)
(***************************************************************************)
EXTENDS Integers, Sequences, FiniteSets, TLC

VARIABLES
    app,            \* the App value owned by run_app: [game_state, should_quit]
    clock,          \* the monotonic clock read by Instant::now(), in ms
    pc,             \* where run_app is: "draw", "select", "done" (returned Ok)
                    \* or "failed" (returned Err)
    next_tick,      \* the deadline of update_interval
    task,           \* the spawn_blocking task whose JoinHandle the select holds
    detached,       \* the tasks whose JoinHandle was dropped, by stage
    input,          \* the terminal events not yet read, oldest first
    delivered,      \* every event the terminal has produced, oldest first
    dispatched,     \* the key codes passed to App::on_key, oldest first
    ledger          \* an Upgrade bought repeatedly: [upgrade, paid, calls]

vars == <<app, clock, pc, next_tick, task, detached, input, delivered, dispatched,
         ledger>>

loop_vars == <<pc, next_tick, task, detached, input, delivered, dispatched>>

-----------------------------------------------------------------------------
(* f64: IEEE 754 binary64 with round-to-nearest, ties to even *)

\* An f64 value is a record [neg, e, h, l] that stands for
\* (-1)^neg * (h * 2^26 + l) * 2^e, where the 53-bit significand h * 2^26 + l
\* is kept in two limbs (2^26 <= h < 2^27, 0 <= l < 2^26), or is Zero.  Every
\* value has one representation, so equality of records is equality of
\* values.  The amounts of a behaviour stay far inside the range of normal
\* numbers: the exponent is not bounded and there is no infinity and no NaN.
Limb == 2 ^ 26
HalfLimb == 2 ^ 13

Zero == [ neg |-> FALSE, e |-> 0, h |-> 0, l |-> 0 ]

\* the number of bits of n, for 0 <= n < 2^31
RECURSIVE BitLen(_)
BitLen(n) == IF n = 0 THEN 0
             ELSE IF n >= 2 ^ 16 THEN 16 + BitLen(n \div 2 ^ 16)
             ELSE IF n >= 2 ^ 8 THEN 8 + BitLen(n \div 2 ^ 8)
             ELSE IF n >= 2 ^ 4 THEN 4 + BitLen(n \div 2 ^ 4)
             ELSE IF n >= 4 THEN 2 + BitLen(n \div 4)
             ELSE IF n >= 2 THEN 2 ELSE 1

\* the f64 nearest to (-1)^neg * (H * 2^26 + L) * 2^e, where the significand
\* H * 2^26 + L has n > 0 bits: it is brought to 53 bits, rounded on the bits
\* cut off, a tie going to the even significand
RoundBits(neg, H, L, e, n) ==
    IF n = 53 THEN [ neg |-> neg, e |-> e, h |-> H, l |-> L ]
    ELSE IF n >= 27
    THEN IF n < 53
         THEN [ neg |-> neg, e |-> e - (53 - n),
                h |-> H * 2 ^ (53 - n) + L \div 2 ^ (n - 27),
                l |-> (L % 2 ^ (n - 27)) * 2 ^ (53 - n) ]
         ELSE LET p    == 2 ^ (n - 53)
                  lost == L % p
                  ml   == (H % p) * (Limb \div p) + L \div p
                  mh   == H \div p
                  up   == lost * 2 > p \/ (lost * 2 = p /\ ml % 2 = 1)
              IN  IF ~up THEN [ neg |-> neg, e |-> e + (n - 53), h |-> mh, l |-> ml ]
                  ELSE IF ml + 1 < Limb
                  THEN [ neg |-> neg, e |-> e + (n - 53), h |-> mh, l |-> ml + 1 ]
                  ELSE IF mh + 1 < 2 * Limb
                  THEN [ neg |-> neg, e |-> e + (n - 53), h |-> mh + 1, l |-> 0 ]
                  ELSE [ neg |-> neg, e |-> e + (n - 53) + 1, h |-> Limb, l |-> 0 ]
    ELSE [ neg |-> neg, e |-> e - (53 - n), h |-> L * 2 ^ (27 - n), l |-> 0 ]

\* the f64 nearest to (-1)^neg * (H * 2^26 + L) * 2^e, for H < 2^31 and
\* L < 2^26
Round(neg, H, L, e) ==
    IF H = 0 /\ L = 0 THEN Zero
    ELSE RoundBits(neg, H, L, e, IF H = 0 THEN BitLen(L) ELSE 26 + BitLen(H))

\* n as f64, for an integer 0 <= n < 2^31: the conversion is exact
F64From(n) == Round(FALSE, n \div Limb, n % Limb, 0)

\* the f64 nearest to (-1)^neg * P * 2^(e - 49), P being the 106-bit product
\* whose limbs of 13 bits are given as s0 .. s6 before the carries: s_k is the
\* sum of the products of limbs that weigh 2^(13 k).  P is cut to its upper
\* 57 bits, the lowest of them set when a bit below is, and rounded
MulColumns(neg, e, s0, s1, s2, s3, s4, s5, s6) ==
    LET t1 == s1 + s0 \div HalfLimb
        t2 == s2 + t1 \div HalfLimb
        t3 == s3 + t2 \div HalfLimb
        t4 == s4 + t3 \div HalfLimb
        t5 == s5 + t4 \div HalfLimb
        t6 == s6 + t5 \div HalfLimb
        c3 == t3 % HalfLimb
        c5 == t5 % HalfLimb
        sticky == s0 % HalfLimb # 0 \/ t1 % HalfLimb # 0 \/ t2 % HalfLimb # 0
                    \/ c3 % 2 ^ 10 # 0
        low == c3 \div 2 ^ 10
    IN  Round(neg, t6 * 8 + c5 \div 2 ^ 10,
              (c5 % 2 ^ 10) * 2 ^ 16 + (t4 % HalfLimb) * 8
                + (IF sticky /\ low % 2 = 0 THEN low + 1 ELSE low),
              e)

\* x * y: the significands are multiplied limb by limb and the product rounded
F64Mul(x, y) ==
    IF x.h = 0 \/ y.h = 0 THEN Zero
    ELSE
      LET a3 == x.h \div HalfLimb  a2 == x.h % HalfLimb
          a1 == x.l \div HalfLimb  a0 == x.l % HalfLimb
          b3 == y.h \div HalfLimb  b2 == y.h % HalfLimb
          b1 == y.l \div HalfLimb  b0 == y.l % HalfLimb
      IN  MulColumns(x.neg # y.neg, x.e + y.e + 49,
                     a0 * b0,
                     a0 * b1 + a1 * b0,
                     a0 * b2 + a1 * b1 + a2 * b0,
                     a0 * b3 + a1 * b2 + a2 * b1 + a3 * b0,
                     a1 * b3 + a2 * b2 + a3 * b1,
                     a2 * b3 + a3 * b2,
                     a3 * b3)

\* the integer part of (h * 2^26 + l) / 2^d, and whether a set bit was cut off
RECURSIVE ShiftRight(_, _, _)
ShiftRight(h, l, d) ==
    IF d = 0 \/ (h = 0 /\ l = 0) THEN [ h |-> h, l |-> l, lost |-> FALSE ]
    ELSE IF d < 26
    THEN LET p == 2 ^ d
         IN  [ h |-> h \div p, l |-> (h % p) * (Limb \div p) + l \div p,
               lost |-> l % p # 0 ]
    ELSE LET s == ShiftRight(h \div Limb, h % Limb, d - 26)
         IN  [ s EXCEPT !.lost = @ \/ l # 0 ]

\* |x| < |y|
MagLess(x, y) ==
    IF y.h = 0 THEN FALSE
    ELSE IF x.h = 0 THEN TRUE
    ELSE IF x.e # y.e THEN x.e < y.e
    ELSE IF x.h # y.h THEN x.h < y.h
    ELSE x.l < y.l

\* x < y
F64Lt(x, y) ==
    IF x.neg # y.neg THEN x.neg /\ (x.h # 0 \/ y.h # 0)
    ELSE IF x.neg THEN MagLess(y, x)
    ELSE MagLess(x, y)

\* x >= y
F64Ge(x, y) == ~F64Lt(x, y)

\* x > y
F64Gt(x, y) == F64Lt(y, x)

\* x <= y
F64Le(x, y) == ~F64Lt(y, x)

\* -x
F64Neg(x) == IF x.h = 0 THEN x ELSE [ x EXCEPT !.neg = ~@ ]

\* the f64 nearest to (-1)^neg * (B + S) * 2^e when same, and to
\* (-1)^neg * (B - S) * 2^e otherwise, for B = bh * 2^26 + bl and the shifted
\* significand S = s.h * 2^26 + s.l <= B, whose lowest bit is set when the
\* shift cut a set bit off
AddSignificands(neg, same, e, bh, bl, s) ==
    LET sl    == IF s.lost /\ s.l % 2 = 0 THEN s.l + 1 ELSE s.l
        lo    == IF same THEN bl + sl ELSE bl - sl
        carry == IF lo >= Limb THEN 1 ELSE IF lo < 0 THEN -1 ELSE 0
    IN  Round(neg, (IF same THEN bh + s.h ELSE bh - s.h) + carry, lo - carry * Limb, e)

\* big + small for |big| >= |small| > 0: the significand of small is shifted
\* to the exponent of big, three bits kept below the last place
AddOrdered(big, small) ==
    AddSignificands(big.neg, big.neg = small.neg, big.e - 3,
                    big.h * 8 + big.l \div 2 ^ 23, (big.l % 2 ^ 23) * 8,
                    ShiftRight(small.h * 8 + small.l \div 2 ^ 23, (small.l % 2 ^ 23) * 8,
                               big.e - small.e))

\* x + y
F64Add(x, y) ==
    IF y.h = 0 THEN x
    ELSE IF x.h = 0 THEN y
    ELSE IF MagLess(x, y) THEN AddOrdered(y, x)
    ELSE AddOrdered(x, y)

\* x - y
F64Sub(x, y) == F64Add(x, F64Neg(y))

\* one more bit of the quotient of the significands: s is [rh, rl, qh, ql],
\* the remainder (below the divisor yh * 2^26 + yl) and the quotient so far
DivStep(s, yh, yl) ==
    LET l2 == s.rl * 2
        h2 == s.rh * 2 + l2 \div Limb
        l3 == l2 % Limb
        q2 == s.ql * 2
        qh == s.qh * 2 + q2 \div Limb
        ql == q2 % Limb
    IN  IF h2 > yh \/ (h2 = yh /\ l3 >= yl)
        THEN IF l3 >= yl
             THEN [ rh |-> h2 - yh, rl |-> l3 - yl, qh |-> qh, ql |-> ql + 1 ]
             ELSE [ rh |-> h2 - yh - 1, rl |-> l3 - yl + Limb, qh |-> qh, ql |-> ql + 1 ]
        ELSE [ rh |-> h2, rl |-> l3, qh |-> qh, ql |-> ql ]

\* n more bits of the quotient
RECURSIVE DivBits(_, _, _, _)
DivBits(s, yh, yl, n) ==
    IF n = 0 THEN s
    ELSE LET t == DivStep(s, yh, yl)
         IN  IF t.ql >= 0 THEN DivBits(t, yh, yl, n - 1) ELSE t

\* the f64 nearest to (-1)^neg * Q * 2^e for the quotient Q = q.qh * 2^26 +
\* q.ql of 56 bits, the lowest set when the remainder is not zero
DivRound(neg, e, q) ==
    Round(neg, q.qh,
          IF (q.rh # 0 \/ q.rl # 0) /\ q.ql % 2 = 0 THEN q.ql + 1 ELSE q.ql, e)

\* x / y for y # 0: 56 bits of the quotient of the significands by long
\* division, rounded
F64Div(x, y) ==
    IF x.h = 0 THEN Zero
    ELSE
      LET ge == ~(x.h < y.h \/ (x.h = y.h /\ x.l < y.l))
          first == IF ~ge THEN [ rh |-> x.h, rl |-> x.l, qh |-> 0, ql |-> 0 ]
                   ELSE IF x.l >= y.l
                   THEN [ rh |-> x.h - y.h, rl |-> x.l - y.l, qh |-> 0, ql |-> 1 ]
                   ELSE [ rh |-> x.h - y.h - 1, rl |-> x.l - y.l + Limb,
                          qh |-> 0, ql |-> 1 ]
      IN  DivRound(x.neg # y.neg, x.e - y.e - 55, DivBits(first, y.h, y.l, 55))

\* the f64 a decimal literal denotes: the f64 nearest to n / d, which the
\* division gives because n and d are themselves f64 values
Literal(n, d) == F64Div(F64From(n), F64From(d))

\* the loop of f64::powi (compiler-rt's __powidf2) for an exponent b >= 0: r
\* is multiplied by a when the lowest bit of b is set, then b is halved and a
\* squared
RECURSIVE powi_loop(_, _, _)
powi_loop(a, b, r) ==
    LET r2 == IF b % 2 = 1 THEN F64Mul(r, a) ELSE r
    IN  IF b \div 2 = 0 THEN r2 ELSE powi_loop(F64Mul(a, a), b \div 2, r2)

\* f64::powi(x, n), n >= 0
powi(x, n) == powi_loop(x, n, F64From(1))

MsPerSec    == 10 ^ 3
NanosPerMs  == 10 ^ 6
NanosPerSec == 10 ^ 9

\* Instant::duration_since on clock readings in ms: saturates at zero
duration_since(later, earlier) == IF later >= earlier THEN later - earlier ELSE 0

\* secs as f64 + nanos as f64 / 1e9 for a Duration of d ms
secs_plus_nanos(d) ==
    F64Add(F64From(d \div MsPerSec),
           F64Div(F64From((d % MsPerSec) * NanosPerMs), F64From(NanosPerSec)))

\* the Durations up to 3 s, in steps of 50 ms
ShortDurations == { k * 50 : k \in 0..60 }

\* secs_plus_nanos of the short Durations, computed once
short_secs == [ d \in ShortDurations |-> secs_plus_nanos(d) ]

\* Duration::as_secs_f64 of a Duration of d ms
as_secs_f64(d) == IF d \in ShortDurations THEN short_secs[d] ELSE secs_plus_nanos(d)

-----------------------------------------------------------------------------
(* Upgrade *)

UpgradeNew(name, base_cost, cost_multiplier, base_production, upgrade_type) ==
    [ name            |-> name,
      base_cost       |-> base_cost,
      cost_multiplier |-> cost_multiplier,
      base_production |-> base_production,
      owned           |-> 0,
      upgrade_type    |-> upgrade_type ]

\* current_cost growing by a fixed amount per upgrade owned
current_cost_linear(u) ==
    F64Mul(u.base_cost,
           F64Add(F64From(1),
                  F64Mul(F64Sub(u.cost_multiplier, F64From(1)), F64From(u.owned))))

current_cost(u) == F64Mul(u.base_cost, powi(u.cost_multiplier, u.owned))

\* current_production without the factor owned
current_production_flat(u) == u.base_production

current_production(u) == F64Mul(u.base_production, F64From(u.owned))

\* can_afford with the comparison turned around
can_afford_flipped(u, gold) == F64Le(gold, current_cost(u))

\* can_afford against the base cost, not the current cost
can_afford_base(u, gold) == F64Ge(gold, u.base_cost)

can_afford(u, gold) == F64Ge(gold, current_cost(u))

\* purchase reading the cost after the increment
purchase_incr_first(u) ==
    [ upgrade |-> [u EXCEPT !.owned = @ + 1],
      cost    |-> current_cost([u EXCEPT !.owned = @ + 1]) ]

\* purchase returning the base cost
purchase_base_cost(u) == [ upgrade |-> [u EXCEPT !.owned = @ + 1], cost |-> u.base_cost ]

\* Upgrade::purchase: the upgrade after the call and the value returned
purchase(u) == [ upgrade |-> [u EXCEPT !.owned = @ + 1], cost |-> current_cost(u) ]

-----------------------------------------------------------------------------
(* Achievement *)

\* the target is the parameter of the type, converted where it is a u64
AchievementNew(name, achievement_type) ==
    [ name             |-> name,
      completed        |-> FALSE,
      target           |-> IF achievement_type.tag \in {"TotalClicks", "UpgradesPurchased"}
                           THEN F64From(achievement_type.param)
                           ELSE achievement_type.param,
      achievement_type |-> achievement_type ]

TotalGold(t)         == [ tag |-> "TotalGold",         param |-> t ]
GoldPerSecond(t)     == [ tag |-> "GoldPerSecond",     param |-> t ]
TotalClicks(t)       == [ tag |-> "TotalClicks",       param |-> t ]
ClickPower(t)        == [ tag |-> "ClickPower",        param |-> t ]
UpgradesPurchased(t) == [ tag |-> "UpgradesPurchased", param |-> t ]

-----------------------------------------------------------------------------
(* GameState *)

Tab == {"Passive", "Click", "Achievements"}

click_cooldown_ms == 500
initial_click_age_ms == 1000

\* GameState::default(), constructed when the clock reads now
GameStateDefault(now) ==
    [ gold                     |-> Zero,
      gold_per_second          |-> Zero,
      click_power              |-> F64From(1),
      total_gold_earned        |-> Zero,
      total_upgrades_purchased |-> 0,
      upgrades |-> <<
        UpgradeNew("Pickaxe", F64From(10), Literal(115, 100), Literal(1, 10), "Passive"),
        UpgradeNew("Shovel", F64From(50), Literal(115, 100), Literal(5, 10), "Passive"),
        UpgradeNew("Drill", F64From(250), Literal(115, 100), F64From(2), "Passive"),
        UpgradeNew("Excavator", F64From(1000), Literal(115, 100), F64From(8), "Passive"),
        UpgradeNew("Mine Shaft", F64From(5000), Literal(115, 100), F64From(30), "Passive"),
        UpgradeNew("Gold Factory", F64From(25000), Literal(115, 100), F64From(100),
                   "Passive"),
        UpgradeNew("Strong Arms", F64From(25), Literal(12, 10), F64From(1), "Click"),
        UpgradeNew("Steel Tools", F64From(100), Literal(12, 10), F64From(2), "Click"),
        UpgradeNew("Power Gloves", F64From(500), Literal(12, 10), F64From(5), "Click"),
        UpgradeNew("Hydraulic Hammer", F64From(2500), Literal(12, 10), F64From(10),
                   "Click"),
        UpgradeNew("Diamond Drill Bit", F64From(10000), Literal(12, 10), F64From(25),
                   "Click") >>,
      achievements |-> <<
        AchievementNew("First Steps",       TotalGold(F64From(100))),
        AchievementNew("Getting Rich",      TotalGold(F64From(10000))),
        AchievementNew("Millionaire",       TotalGold(F64From(1000000))),
        AchievementNew("Passive Income",    GoldPerSecond(F64From(10))),
        AchievementNew("Gold Rush",         GoldPerSecond(F64From(100))),
        AchievementNew("Click Master",      TotalClicks(1000)),
        AchievementNew("Power Clicker",     ClickPower(F64From(50))),
        AchievementNew("Upgrade Collector", UpgradesPurchased(50)) >>,
      selected_upgrade |-> 0,
      current_tab      |-> "Passive",
      last_update      |-> now,
      total_clicks     |-> 0,
      show_help        |-> FALSE,
      last_click       |-> now - initial_click_age_ms,
      click_cooldown   |-> click_cooldown_ms ]

IsPassive(u) == u.upgrade_type = "Passive"

IsClick(u) == u.upgrade_type = "Click"

\* .map(|u| u.current_production()).sum() over a filtered list of upgrades:
\* the productions of the first k entries, added from the first one on
RECURSIVE sum_production_to(_, _)
sum_production_to(us, k) ==
    IF k = 0 THEN Zero
    ELSE F64Add(sum_production_to(us, k - 1), current_production(us[k]))

sum_production(us) == sum_production_to(us, Len(us))

\* current_value reading the balance for a TotalGold achievement
current_value_balance(a, gs) ==
    CASE a.achievement_type.tag = "TotalGold"         -> gs.gold
      [] a.achievement_type.tag = "GoldPerSecond"     -> gs.gold_per_second
      [] a.achievement_type.tag = "TotalClicks"       -> F64From(gs.total_clicks)
      [] a.achievement_type.tag = "ClickPower"        -> gs.click_power
      [] a.achievement_type.tag = "UpgradesPurchased" -> F64From(gs.total_upgrades_purchased)

\* the value an achievement is compared with, from the five aggregates
current_value(a, gs) ==
    CASE a.achievement_type.tag = "TotalGold"         -> gs.total_gold_earned
      [] a.achievement_type.tag = "GoldPerSecond"     -> gs.gold_per_second
      [] a.achievement_type.tag = "TotalClicks"       -> F64From(gs.total_clicks)
      [] a.achievement_type.tag = "ClickPower"        -> gs.click_power
      [] a.achievement_type.tag = "UpgradesPurchased" -> F64From(gs.total_upgrades_purchased)

\* the loop body storing the condition itself in completed
check_achievement_assign(a, gs) ==
    [a EXCEPT !.completed = ~a.completed /\ F64Ge(current_value(a, gs), a.target)]

\* the loop body with the comparison against the target turned around
check_achievement_flipped(a, gs) ==
    IF ~a.completed /\ F64Le(current_value(a, gs), a.target)
    THEN [a EXCEPT !.completed = TRUE]
    ELSE a

\* the body of the loop over achievements in update
check_achievement(a, gs) ==
    IF ~a.completed /\ F64Ge(current_value(a, gs), a.target)
    THEN [a EXCEPT !.completed = TRUE]
    ELSE a

\* update accruing at the rate stored by the previous tick
update_stale_rate(gs, now) ==
    LET delta == as_secs_f64(duration_since(now, gs.last_update))
        gps   == sum_production(SelectSeq(gs.upgrades, IsPassive))
        cp    == F64Add(F64From(1), sum_production(SelectSeq(gs.upgrades, IsClick)))
        gold_earned == F64Mul(gs.gold_per_second, delta)
        g1 == [gs EXCEPT !.last_update       = now,
                         !.gold_per_second   = gps,
                         !.click_power       = cp,
                         !.gold              = F64Add(@, gold_earned),
                         !.total_gold_earned = F64Add(@, gold_earned)]
    IN  [g1 EXCEPT !.achievements =
            [i \in 1..Len(g1.achievements) |-> check_achievement(g1.achievements[i], g1)]]

\* update returning at once while the help screen is shown
update_paused_by_help(gs, now) ==
    IF gs.show_help THEN gs
    ELSE
      LET delta == as_secs_f64(duration_since(now, gs.last_update))
          gps   == sum_production(SelectSeq(gs.upgrades, IsPassive))
          cp    == F64Add(F64From(1), sum_production(SelectSeq(gs.upgrades, IsClick)))
          gold_earned == F64Mul(gps, delta)
          g1 == [gs EXCEPT !.last_update       = now,
                           !.gold_per_second   = gps,
                           !.click_power       = cp,
                           !.gold              = F64Add(@, gold_earned),
                           !.total_gold_earned = F64Add(@, gold_earned)]
      IN  [g1 EXCEPT !.achievements =
              [i \in 1..Len(g1.achievements) |-> check_achievement(g1.achievements[i], g1)]]

\* GameState::update, with Instant::now() = now
update(gs, now) ==
    LET delta == as_secs_f64(duration_since(now, gs.last_update))
        gps   == sum_production(SelectSeq(gs.upgrades, IsPassive))
        cp    == F64Add(F64From(1), sum_production(SelectSeq(gs.upgrades, IsClick)))
        gold_earned == F64Mul(gps, delta)
        g1 == [gs EXCEPT !.last_update       = now,
                         !.gold_per_second   = gps,
                         !.click_power       = cp,
                         !.gold              = F64Add(@, gold_earned),
                         !.total_gold_earned = F64Add(@, gold_earned)]
    IN  [g1 EXCEPT !.achievements =
            [i \in 1..Len(g1.achievements) |-> check_achievement(g1.achievements[i], g1)]]

\* click_for_gold with a strict comparison against the cooldown
click_for_gold_strict(gs, now) ==
    IF duration_since(now, gs.last_click) > gs.click_cooldown
    THEN [gs EXCEPT !.gold              = F64Add(@, gs.click_power),
                    !.total_gold_earned = F64Add(@, gs.click_power),
                    !.total_clicks      = @ + 1,
                    !.last_click        = now]
    ELSE gs

\* click_for_gold crediting gold but not total_gold_earned
click_for_gold_untracked(gs, now) ==
    IF duration_since(now, gs.last_click) >= gs.click_cooldown
    THEN [gs EXCEPT !.gold         = F64Add(@, gs.click_power),
                    !.total_clicks = @ + 1,
                    !.last_click   = now]
    ELSE gs

\* GameState::click_for_gold, with Instant::now() = now
click_for_gold(gs, now) ==
    IF duration_since(now, gs.last_click) >= gs.click_cooldown
    THEN [gs EXCEPT !.gold              = F64Add(@, gs.click_power),
                    !.total_gold_earned = F64Add(@, gs.click_power),
                    !.total_clicks      = @ + 1,
                    !.last_click        = now]
    ELSE gs

get_current_upgrades(gs) ==
    CASE gs.current_tab = "Passive"      -> SelectSeq(gs.upgrades, IsPassive)
      [] gs.current_tab = "Click"        -> SelectSeq(gs.upgrades, IsClick)
      [] gs.current_tab = "Achievements" -> <<>>

\* the index (from 0) of the upgrade among those of its own type: its index in
\* the list the tab shows, not in the master collection
position_in_view(upgrades, upgrade) ==
    LET hits  == { i \in 1..Len(upgrades) :
                     /\ upgrades[i].name = upgrade.name
                     /\ upgrades[i].upgrade_type = upgrade.upgrade_type }
        first == CHOOSE i \in hits : \A j \in hits : i <= j
    IN  Cardinality({ j \in 1..(first - 1) :
                        upgrades[j].upgrade_type = upgrade.upgrade_type })

\* Iterator::position: the first index (from 0) of an upgrade with this name and type
position(upgrades, upgrade) ==
    LET hits == { i \in 1..Len(upgrades) :
                    /\ upgrades[i].name = upgrade.name
                    /\ upgrades[i].upgrade_type = upgrade.upgrade_type }
    IN  (CHOOSE i \in hits : \A j \in hits : i <= j) - 1

\* buy_selected debiting total_gold_earned as well as gold
buy_selected_debits_total(gs) ==
    IF gs.current_tab = "Achievements" THEN gs
    ELSE
      LET current_upgrades == get_current_upgrades(gs) IN
      IF gs.selected_upgrade < Len(current_upgrades)
      THEN LET upgrade == current_upgrades[gs.selected_upgrade + 1] IN
           IF can_afford(upgrade, gs.gold)
           THEN LET upgrade_index == position(gs.upgrades, upgrade)
                    bought        == purchase(gs.upgrades[upgrade_index + 1])
                IN  [gs EXCEPT !.upgrades[upgrade_index + 1] = bought.upgrade,
                               !.gold                        = F64Sub(@, bought.cost),
                               !.total_gold_earned           = F64Sub(@, bought.cost),
                               !.total_upgrades_purchased    = @ + 1]
           ELSE gs
      ELSE gs

\* buy_selected without the can_afford test
buy_selected_unchecked(gs) ==
    IF gs.current_tab = "Achievements" THEN gs
    ELSE
      LET current_upgrades == get_current_upgrades(gs) IN
      IF gs.selected_upgrade < Len(current_upgrades)
      THEN LET upgrade       == current_upgrades[gs.selected_upgrade + 1]
               upgrade_index == position(gs.upgrades, upgrade)
               bought        == purchase(gs.upgrades[upgrade_index + 1])
           IN  [gs EXCEPT !.upgrades[upgrade_index + 1] = bought.upgrade,
                          !.gold                        = F64Sub(@, bought.cost),
                          !.total_upgrades_purchased    = @ + 1]
      ELSE gs

\* buy_selected recomputing the derived rates after the purchase
buy_selected_refreshes(gs) ==
    IF gs.current_tab = "Achievements" THEN gs
    ELSE
      LET current_upgrades == get_current_upgrades(gs) IN
      IF gs.selected_upgrade < Len(current_upgrades)
      THEN LET upgrade == current_upgrades[gs.selected_upgrade + 1] IN
           IF can_afford(upgrade, gs.gold)
           THEN LET upgrade_index == position(gs.upgrades, upgrade)
                    bought        == purchase(gs.upgrades[upgrade_index + 1])
                    g1 == [gs EXCEPT !.upgrades[upgrade_index + 1] = bought.upgrade,
                                     !.gold                        = F64Sub(@, bought.cost),
                                     !.total_upgrades_purchased    = @ + 1]
                IN  [g1 EXCEPT !.gold_per_second =
                                   sum_production(SelectSeq(g1.upgrades, IsPassive)),
                               !.click_power =
                                   F64Add(F64From(1), sum_production(SelectSeq(g1.upgrades, IsClick)))]
           ELSE gs
      ELSE gs

\* buy_selected leaving total_upgrades_purchased as it was
buy_selected_uncounted(gs) ==
    IF gs.current_tab = "Achievements" THEN gs
    ELSE
      LET current_upgrades == get_current_upgrades(gs) IN
      IF gs.selected_upgrade < Len(current_upgrades)
      THEN LET upgrade == current_upgrades[gs.selected_upgrade + 1] IN
           IF can_afford(upgrade, gs.gold)
           THEN LET upgrade_index == position(gs.upgrades, upgrade)
                    bought        == purchase(gs.upgrades[upgrade_index + 1])
                IN  [gs EXCEPT !.upgrades[upgrade_index + 1] = bought.upgrade,
                               !.gold                        = F64Sub(@, bought.cost)]
           ELSE gs
      ELSE gs

buy_selected(gs) ==
    IF gs.current_tab = "Achievements" THEN gs
    ELSE
      LET current_upgrades == get_current_upgrades(gs) IN
      IF gs.selected_upgrade < Len(current_upgrades)
      THEN LET upgrade == current_upgrades[gs.selected_upgrade + 1] IN
           IF can_afford(upgrade, gs.gold)
           THEN LET upgrade_index == position(gs.upgrades, upgrade)
                    bought        == purchase(gs.upgrades[upgrade_index + 1])
                IN  [gs EXCEPT !.upgrades[upgrade_index + 1] = bought.upgrade,
                               !.gold                        = F64Sub(@, bought.cost),
                               !.total_upgrades_purchased    = @ + 1]
           ELSE gs
      ELSE gs

saturating_sub(a, b) == IF a >= b THEN a - b ELSE 0

\* select_next bounded by the number of entries, not by the last index
select_next_past_end(gs) ==
    LET max_index ==
          CASE gs.current_tab = "Passive"      -> Len(SelectSeq(gs.upgrades, IsPassive))
            [] gs.current_tab = "Click"        -> Len(SelectSeq(gs.upgrades, IsClick))
            [] gs.current_tab = "Achievements" -> Len(gs.achievements)
    IN  IF gs.selected_upgrade < max_index
        THEN [gs EXCEPT !.selected_upgrade = @ + 1]
        ELSE gs

select_next(gs) ==
    LET max_index ==
          CASE gs.current_tab = "Passive"      -> Len(SelectSeq(gs.upgrades, IsPassive))
            [] gs.current_tab = "Click"        -> Len(SelectSeq(gs.upgrades, IsClick))
            [] gs.current_tab = "Achievements" -> Len(gs.achievements)
    IN  IF gs.selected_upgrade < saturating_sub(max_index, 1)
        THEN [gs EXCEPT !.selected_upgrade = @ + 1]
        ELSE gs

select_previous(gs) ==
    IF gs.selected_upgrade > 0
    THEN [gs EXCEPT !.selected_upgrade = @ - 1]
    ELSE gs

\* switch_tab that keeps the selection
switch_tab_keep(gs, tab) ==
    IF gs.current_tab # tab
    THEN [gs EXCEPT !.current_tab = tab]
    ELSE gs

\* switch_tab that resets the selection whatever the tab
switch_tab_always(gs, tab) == [gs EXCEPT !.current_tab = tab, !.selected_upgrade = 0]

switch_tab(gs, tab) ==
    IF gs.current_tab # tab
    THEN [gs EXCEPT !.current_tab = tab, !.selected_upgrade = 0]
    ELSE gs

-----------------------------------------------------------------------------
(* App *)

AppNew(now) == [ game_state |-> GameStateDefault(now), should_quit |-> FALSE ]

on_tick(a, now) == [a EXCEPT !.game_state = update(@, now)]

\* the key codes on_key tells apart, and one it does not ("x")
KeyCode == {"q", " ", "Enter", "Up", "Down", "h", "1", "2", "3", "x"}

\* on_key without the arm for 'q'
on_key_quit_ignored(a, key, now) ==
    CASE key = " "     -> [a EXCEPT !.game_state = click_for_gold(@, now)]
      [] key = "Enter" -> [a EXCEPT !.game_state = buy_selected(@)]
      [] key = "Up"    -> [a EXCEPT !.game_state = select_previous(@)]
      [] key = "Down"  -> [a EXCEPT !.game_state = select_next(@)]
      [] key = "h"     -> [a EXCEPT !.game_state.show_help = ~@]
      [] key = "1"     -> [a EXCEPT !.game_state = switch_tab(@, "Passive")]
      [] key = "2"     -> [a EXCEPT !.game_state = switch_tab(@, "Click")]
      [] key = "3"     -> [a EXCEPT !.game_state = switch_tab(@, "Achievements")]
      [] OTHER         -> a

on_key(a, key, now) ==
    CASE key = "q"     -> [a EXCEPT !.should_quit = TRUE]
      [] key = " "     -> [a EXCEPT !.game_state = click_for_gold(@, now)]
      [] key = "Enter" -> [a EXCEPT !.game_state = buy_selected(@)]
      [] key = "Up"    -> [a EXCEPT !.game_state = select_previous(@)]
      [] key = "Down"  -> [a EXCEPT !.game_state = select_next(@)]
      [] key = "h"     -> [a EXCEPT !.game_state.show_help = ~@]
      [] key = "1"     -> [a EXCEPT !.game_state = switch_tab(@, "Passive")]
      [] key = "2"     -> [a EXCEPT !.game_state = switch_tab(@, "Click")]
      [] key = "3"     -> [a EXCEPT !.game_state = switch_tab(@, "Achievements")]
      [] OTHER         -> a

-----------------------------------------------------------------------------
(* Bounds of the model *)

\* the clock advances in steps of half the click cooldown
Quantum == click_cooldown_ms \div 2

\* how many steps the clock advances in a behaviour
MaxQuanta == 2

\* the clock reading at which every behaviour starts
StartClock == 100 * click_cooldown_ms

\* An event of a session: a tick or a key press, and the clock reading at it
Ev(what, at) == [ what |-> what, at |-> at ]

\* the App after the loop has handled event e
Handle(a, e) == IF e.what = "tick" THEN on_tick(a, e.at) ELSE on_key(a, e.what, e.at)

\* the App after the loop has handled the events from, from + 1, ... to of s,
\* in order (the first half of them, then the second half); the loop returns
\* once should_quit is set
RECURSIVE Replay(_, _, _, _)
Replay(a, s, from, to) ==
    IF a.should_quit \/ from > to THEN a
    ELSE IF from = to THEN Handle(a, s[from])
    ELSE LET mid == (from + to) \div 2
         IN  Replay(Replay(a, s, from, mid), s, mid + 1, to)

\* n presses of the space bar, one per cooldown, the last one at time t
Clicks(n, t) == [ i \in 1..n |-> Ev(" ", t - (n - i) * click_cooldown_ms) ]

LastClick == StartClock - click_cooldown_ms

\* the time of the last tick of a session whose loop then stalls
LastTick == StartClock - 3 * click_cooldown_ms

\* A behaviour starts in a state the program reaches from App::new(): the
\* state after one of these sessions.
\*   - nothing but a tick;
\*   - 10 clicks and a tick (the first Passive upgrade is affordable);
\*   - 99 clicks, then three Pickaxes and a Shovel bought, and a tick
\*     (total_gold_earned is just below the first achievement's target, and
\*     gold lies between the Pickaxe's base cost and its current cost);
\*   - 68 clicks, then five Pickaxes bought, and no tick for three cooldowns
\*     (the Pickaxes are the only income, and the last tick is 1.5 s old);
\*   - 35 clicks, then a Pickaxe bought, and a tick (a Passive upgrade is
\*     owned and the first Click upgrade is affordable).
Sessions ==
    { <<Ev("tick", StartClock)>>,
      Clicks(10, LastClick) \o <<Ev("tick", StartClock)>>,
      Clicks(99, LastClick) \o
        << Ev("tick", LastClick), Ev("Enter", LastClick), Ev("Enter", LastClick),
           Ev("Enter", LastClick), Ev("Down", LastClick), Ev("Enter", LastClick),
           Ev("tick", StartClock) >>,
      Clicks(68, LastTick) \o
        << Ev("tick", LastTick), Ev("Enter", LastTick), Ev("Enter", LastTick),
           Ev("Enter", LastTick), Ev("Enter", LastTick), Ev("Enter", LastTick),
           Ev("tick", LastTick) >>,
      Clicks(35, LastClick) \o
        << Ev("tick", LastClick), Ev("Enter", LastClick), Ev("tick", StartClock) >> }

\* the clock reading at which the App of session s is constructed
Born(s) == s[1].at

-----------------------------------------------------------------------------
(* The event stream of one session: ticks and key presses, one at a time *)

\* Option::None, as the value a task returns
None == [ type |-> "None" ]

NoTask == [ stage |-> "none", result |-> None ]

InitLoop ==
    /\ pc = "draw"
    /\ next_tick = clock
    /\ task = NoTask
    /\ detached = [ spawned |-> 0, reading |-> 0 ]
    /\ input = <<>>
    /\ delivered = <<>>
    /\ dispatched = <<>>

\* an Upgrade as Upgrade::new makes it, nothing paid for it yet
Unbought(u) == [ upgrade |-> u, paid |-> Zero, calls |-> 0 ]

Init ==
    /\ clock = StartClock
    /\ app \in { Replay(AppNew(Born(s)), s, 1, Len(s)) : s \in Sessions }
    /\ InitLoop
    /\ ledger = Unbought(app.game_state.upgrades[1])

\* time passes
Elapse ==
    /\ ~app.should_quit
    /\ clock + Quantum <= StartClock + MaxQuanta * Quantum
    /\ clock' = clock + Quantum
    /\ UNCHANGED <<app, loop_vars, ledger>>

\* the timer branch of the loop: app.on_tick()
Tick ==
    /\ ~app.should_quit
    /\ app' = on_tick(app, clock)
    /\ UNCHANGED <<clock, loop_vars, ledger>>

\* the input branch of the loop, for a key event of kind Press: app.on_key(key.code)
Press(key) ==
    /\ app' = on_key(app, key, clock)
    /\ UNCHANGED <<clock, loop_vars, ledger>>

KeyQuit  == ~app.should_quit /\ Press("q")
KeySpace == ~app.should_quit /\ Press(" ")
KeyEnter == ~app.should_quit /\ Press("Enter")
KeyUp    == ~app.should_quit /\ Press("Up")
KeyDown  == ~app.should_quit /\ Press("Down")
KeyHelp  == ~app.should_quit /\ Press("h")
KeyTab   == ~app.should_quit /\ \E key \in {"1", "2", "3"} : Press(key)
KeyOther == ~app.should_quit /\ Press("x")

\* run_app handles one event at a time and returns once should_quit is set
Next ==
    \/ Elapse
    \/ Tick
    \/ KeyQuit
    \/ KeySpace
    \/ KeyEnter
    \/ KeyUp
    \/ KeyDown
    \/ KeyHelp
    \/ KeyTab
    \/ KeyOther

Spec == Init /\ [][Next]_vars

-----------------------------------------------------------------------------
(* run_app: the select loop, its interval and its input-poll tasks *)

tick_period_ms == 100

\* how many events the terminal produces in a behaviour
MaxEvents == 2

KeyEvent(code, kind) == [ type |-> "Key", code |-> code, kind |-> kind ]

\* the terminal events of the model: key events of kind Press and Release,
\* and one event that is not a key event
TermEvents ==
    { KeyEvent(" ", "Press"), KeyEvent(" ", "Release"), KeyEvent("Down", "Press"),
      KeyEvent("q", "Press"), [ type |-> "Mouse" ] }

\* Interval::tick completing at now when its deadline was timeout, under
\* MissedTickBehavior::Skip: the next deadline
next_timeout(timeout, now) ==
    IF now > timeout
    THEN now + tick_period_ms - ((now - timeout) % tick_period_ms)
    ELSE timeout + tick_period_ms

InitRun ==
    /\ clock = StartClock
    /\ app = AppNew(clock)
    /\ InitLoop
    /\ ledger = Unbought(app.game_state.upgrades[1])

\* time passes
LoopElapse ==
    /\ clock + tick_period_ms <= StartClock + MaxQuanta * tick_period_ms
    /\ clock' = clock + tick_period_ms
    /\ UNCHANGED <<app, loop_vars, ledger>>

\* the terminal produces an event
EventArrives ==
    /\ Len(delivered) < MaxEvents
    /\ \E e \in TermEvents :
         /\ input' = Append(input, e)
         /\ delivered' = Append(delivered, e)
    /\ UNCHANGED <<app, clock, pc, next_tick, task, detached, dispatched, ledger>>

\* terminal.draw, then select! evaluates its branch expressions: the blocking
\* task is spawned
LoopDraw ==
    /\ pc = "draw"
    /\ pc' = "select"
    /\ task' = [ stage |-> "spawned", result |-> None ]
    /\ UNCHANGED <<app, clock, next_tick, detached, input, delivered, dispatched, ledger>>

\* terminal.draw fails: the ? operator returns the error from run_app
LoopDrawFails ==
    /\ pc = "draw"
    /\ pc' = "failed"
    /\ UNCHANGED <<app, clock, next_tick, task, detached, input, delivered, dispatched,
                   ledger>>

\* the closure of the task the select holds: event::poll(0) takes the lock of
\* the event reader and finds an event pending or none
TaskPoll ==
    /\ task.stage = "spawned"
    /\ task' = IF input # <<>> THEN [ task EXCEPT !.stage = "reading" ]
                               ELSE [ stage |-> "done", result |-> None ]
    /\ UNCHANGED <<app, clock, pc, next_tick, detached, input, delivered, dispatched, ledger>>

\* the same poll giving false whatever is pending: it returns Ok(false) when
\* it cannot take the lock of the event reader at once, which a closure of
\* another task holds while it is inside poll or read, and an Err it returns
\* is turned into false by unwrap_or(false); the closure returns None
TaskPollFalse ==
    /\ task.stage = "spawned"
    /\ task' = [ stage |-> "done", result |-> None ]
    /\ UNCHANGED <<app, clock, pc, next_tick, detached, input, delivered, dispatched, ledger>>

\* the closure of the task the select holds: event::read().ok()
TaskRead ==
    /\ task.stage = "reading"
    /\ input # <<>>
    /\ task' = [ stage |-> "done", result |-> Head(input) ]
    /\ input' = Tail(input)
    /\ UNCHANGED <<app, clock, pc, next_tick, detached, delivered, dispatched, ledger>>

\* event::read() returns Err, which ok() turns into None: no event is read
TaskReadErr ==
    /\ task.stage = "reading"
    /\ task' = [ stage |-> "done", result |-> None ]
    /\ UNCHANGED <<app, clock, pc, next_tick, detached, input, delivered, dispatched, ledger>>

\* the same closure in a task whose JoinHandle was dropped: event::poll(0)
DetachedPoll ==
    /\ detached.spawned > 0
    /\ detached' = IF input # <<>>
                   THEN [ spawned |-> detached.spawned - 1, reading |-> detached.reading + 1 ]
                   ELSE [ detached EXCEPT !.spawned = @ - 1 ]
    /\ UNCHANGED <<app, clock, pc, next_tick, task, input, delivered, dispatched, ledger>>

\* the poll of such a task giving false whatever is pending
DetachedPollFalse ==
    /\ detached.spawned > 0
    /\ detached' = [ detached EXCEPT !.spawned = @ - 1 ]
    /\ UNCHANGED <<app, clock, pc, next_tick, task, input, delivered, dispatched, ledger>>

\* the same closure in a task whose JoinHandle was dropped: event::read(); the
\* value the task returns has no receiver
DetachedRead ==
    /\ detached.reading > 0
    /\ input # <<>>
    /\ detached' = [ detached EXCEPT !.reading = @ - 1 ]
    /\ input' = Tail(input)
    /\ UNCHANGED <<app, clock, pc, next_tick, task, delivered, dispatched, ledger>>

\* event::read() of such a task returns Err: no event is read
DetachedReadErr ==
    /\ detached.reading > 0
    /\ detached' = [ detached EXCEPT !.reading = @ - 1 ]
    /\ UNCHANGED <<app, clock, pc, next_tick, task, input, delivered, dispatched, ledger>>

\* select! takes the timer branch: the interval's tick is ready; the other
\* branch's future, the JoinHandle, is dropped and the task runs on
TimerBranch ==
    /\ pc = "select"
    /\ clock >= next_tick
    /\ next_tick' = next_timeout(next_tick, clock)
    /\ app' = on_tick(app, clock)
    /\ detached' = CASE task.stage = "spawned" -> [ detached EXCEPT !.spawned = @ + 1 ]
                     [] task.stage = "reading" -> [ detached EXCEPT !.reading = @ + 1 ]
                     [] OTHER                  -> detached
    /\ task' = NoTask
    /\ pc' = IF app'.should_quit THEN "done" ELSE "draw"
    /\ UNCHANGED <<clock, input, delivered, dispatched, ledger>>

\* select! takes the input branch: the task has finished and its result is
\* matched against Ok(Some(Event::Key(key))) with key.kind == Press
InputBranch ==
    /\ pc = "select"
    /\ task.stage = "done"
    /\ IF task.result.type = "Key" /\ task.result.kind = "Press"
       THEN /\ app' = on_key(app, task.result.code, clock)
            /\ dispatched' = Append(dispatched, task.result.code)
            /\ pc' = IF app'.should_quit THEN "done" ELSE "draw"
       ELSE /\ pc' = "draw"
            /\ UNCHANGED <<app, dispatched>>
    /\ task' = NoTask
    /\ UNCHANGED <<clock, next_tick, detached, input, delivered, ledger>>

NextRun ==
    \/ LoopElapse
    \/ EventArrives
    \/ LoopDraw
    \/ LoopDrawFails
    \/ TaskPoll
    \/ TaskPollFalse
    \/ TaskRead
    \/ TaskReadErr
    \/ DetachedPoll
    \/ DetachedPollFalse
    \/ DetachedRead
    \/ DetachedReadErr
    \/ TimerBranch
    \/ InputBranch

SpecRun == InitRun /\ [][NextRun]_vars

-----------------------------------------------------------------------------
(* Upgrade::purchase called again and again on one Upgrade of the catalog *)

\* how many times purchase is called in a behaviour
MaxPurchases == 9

InitBuy ==
    /\ clock = StartClock
    /\ app = AppNew(clock)
    /\ InitLoop
    /\ \E i \in 1..Len(app.game_state.upgrades) :
         ledger = Unbought(app.game_state.upgrades[i])

\* let cost = upgrade.purchase(); paid += cost
Purchase ==
    /\ ledger.calls < MaxPurchases
    /\ LET p == purchase(ledger.upgrade)
       IN  ledger' = [ upgrade |-> p.upgrade,
                       paid    |-> F64Add(ledger.paid, p.cost),
                       calls   |-> ledger.calls + 1 ]
    /\ UNCHANGED <<app, clock, loop_vars>>

NextBuy == Purchase

SpecBuy == InitBuy /\ [][NextBuy]_vars

-----------------------------------------------------------------------------
(* The claims *)

G == app.game_state

\* the upgrade of the catalog with this name
Named(name) == G.upgrades[CHOOSE i \in 1..Len(G.upgrades) : G.upgrades[i].name = name]

\* the number of entries of the list the current tab shows
ViewCount ==
    CASE G.current_tab = "Passive" ->
           Cardinality({ i \in 1..Len(G.upgrades) : G.upgrades[i].upgrade_type = "Passive" })
      [] G.current_tab = "Click" ->
           Cardinality({ i \in 1..Len(G.upgrades) : G.upgrades[i].upgrade_type = "Click" })
      [] G.current_tab = "Achievements" -> Len(G.achievements)

\* the indices, in the master collection, of the upgrades the current tab shows
ViewIndices == { i \in 1..Len(G.upgrades) : G.upgrades[i].upgrade_type = G.current_tab }

\* the index, in the master collection, of the selected upgrade: the one with
\* selected_upgrade entries of the current tab before it (0 if there is none)
SelectedIndex ==
    LET at == { i \in ViewIndices :
                  Cardinality({ j \in ViewIndices : j < i }) = G.selected_upgrade }
    IN  IF at = {} THEN 0 ELSE CHOOSE i \in at : TRUE

\* base_cost * cost_multiplier^owned of the upgrade at index i
CostAt(i) ==
    F64Mul(G.upgrades[i].base_cost,
           powi(G.upgrades[i].cost_multiplier, G.upgrades[i].owned))

\* the sum of base_production * owned over the upgrades of one type
RECURSIVE ProductionOf(_, _, _)
ProductionOf(upgrades, type, i) ==
    IF i = 0 THEN Zero
    ELSE F64Add(ProductionOf(upgrades, type, i - 1),
                IF upgrades[i].upgrade_type = type
                THEN F64Mul(upgrades[i].base_production, F64From(upgrades[i].owned))
                ELSE Zero)

\* C1: in every reachable state gold >= 0.
C1_GoldNonNegative == F64Ge(G.gold, Zero)

\* a purchase has spent the whole balance, the gold of 10 clicks, and the
\* tick after it, handled at once, has found the Pickaxe but added nothing
C1_Witness ==
    /\ G.gold = Zero
    /\ G.total_clicks = 10
    /\ Named("Pickaxe").owned = 1
    /\ G.gold_per_second = Literal(1, 10)

\* C2: total_gold_earned never decreases in a step, and gold decreases in a
\* step only if the step is buy_selected: a tick, a click, a selection move, a
\* tab switch and the help toggle never lower gold.
C2_EarnedMonotoneGoldSpentOnlyByPurchase ==
    [][ /\ F64Ge(G'.total_gold_earned, G.total_gold_earned)
        /\ (F64Lt(G'.gold, G.gold) => G' = buy_selected(G))
        /\ (Tick \/ KeySpace \/ KeyUp \/ KeyDown \/ KeyTab \/ KeyHelp \/ KeyOther \/ KeyQuit
              => F64Ge(G'.gold, G.gold)) ]_vars

\* gold was spent and then earned again: Strong Arms bought after 35 clicks
\* and a Pickaxe, which left less than 1.0, a tick, and a click at the new
\* click power 2.0
C2_Witness ==
    /\ G.total_upgrades_purchased = 2
    /\ Named("Strong Arms").owned = 1
    /\ G.total_clicks = 36
    /\ G.click_power = F64From(2)
    /\ F64Ge(G.gold, F64From(2))
    /\ F64Lt(G.gold, F64From(3))
    /\ F64Ge(G.total_gold_earned, F64From(37))

\* C3: an achievement's completed flag, once true, is true in every later state.
C3_CompletedIsLatch ==
    [][ /\ Len(G'.achievements) = Len(G.achievements)
        /\ \A i \in 1..Len(G.achievements) :
             G.achievements[i].completed => G'.achievements[i].completed ]_vars

\* First Steps is completed and a later tick has been handled with the flag set:
\* time has passed since its target was reached, and last_update is now
C3_Witness ==
    /\ G.achievements[1].completed
    /\ F64Ge(G.total_gold_earned, F64Add(G.achievements[1].target, F64From(1)))
    /\ G.last_update = clock
    /\ F64Lt(G.gold, G.achievements[1].target)

\* C4: in every reachable state, a click at least click_cooldown after the
\* last effective click adds click_power to gold and total_gold_earned, adds 1
\* to total_clicks and sets last_click, and a click sooner than that changes
\* nothing; and last_click changes only in an effective click.
C4_ClickCooldown ==
    /\ [](LET after == on_key(app, " ", clock) IN
          IF clock - G.last_click >= click_cooldown_ms
          THEN after = [app EXCEPT !.game_state.gold              = F64Add(@, G.click_power),
                                   !.game_state.total_gold_earned = F64Add(@, G.click_power),
                                   !.game_state.total_clicks      = @ + 1,
                                   !.game_state.last_click        = clock]
          ELSE after = app)
    /\ [][ G'.last_click # G.last_click =>
             /\ KeySpace
             /\ clock - G.last_click >= click_cooldown_ms
             /\ G'.last_click = clock ]_vars

\* two effective clicks exactly one cooldown apart, the tenth and the
\* eleventh, and the clock inside the cooldown of the second
C4_Witness ==
    /\ G.total_clicks = 11
    /\ G.gold = F64From(11)
    /\ G.last_click = LastClick + click_cooldown_ms
    /\ clock - G.last_click > 0
    /\ clock - G.last_click < click_cooldown_ms

\* the codes of the key events of kind Press in a sequence of terminal events
RECURSIVE PressCodes(_)
PressCodes(events) ==
    IF events = <<>> THEN <<>>
    ELSE (IF Head(events).type = "Key" /\ Head(events).kind = "Press"
          THEN <<Head(events).code>> ELSE <<>>) \o PressCodes(Tail(events))

\* the events read from the terminal so far
Consumed == SubSeq(delivered, 1, Len(delivered) - Len(input))

\* the event the finished task returns to the select, if it is a key press
Held == IF task.stage = "done" THEN PressCodes(<<task.result>>) ELSE <<>>

\* C5: while the loop runs, the key presses read from the terminal are exactly
\* the key codes dispatched to on_key, in order and once each, followed by the
\* one the select is about to receive: no press is lost or handled twice, and
\* no event of another kind is dispatched.
C5_EveryPressDispatchedOnce ==
    pc \in {"draw", "select"} => PressCodes(Consumed) = dispatched \o Held

\* C6: selected_upgrade is a valid index into the list of the current tab.
C6_SelectedIndexValid == G.selected_upgrade < ViewCount

\* the last achievement is selected, an index no upgrade list has
C6_Witness ==
    /\ G.current_tab = "Achievements"
    /\ G.selected_upgrade = Len(G.achievements) - 1

\* C7: in every reachable state with the Passive or Click tab current and
\* gold >= the selected upgrade's cost, buy_selected lowers gold by exactly
\* base_cost * cost_multiplier^owned for the owned count before the call, adds
\* 1 to that upgrade's owned and 1 to total_upgrades_purchased; from gold =
\* 10.0 and a cost of 10.0, gold becomes 0.0.
C7_PurchaseEffect ==
    ( /\ G.current_tab \in {"Passive", "Click"}
      /\ SelectedIndex # 0
      /\ F64Ge(G.gold, CostAt(SelectedIndex)) )
    => LET after == on_key(app, "Enter", clock).game_state IN
       /\ after.gold = F64Sub(G.gold, CostAt(SelectedIndex))
       /\ after.upgrades[SelectedIndex].owned = G.upgrades[SelectedIndex].owned + 1
       /\ after.total_upgrades_purchased = G.total_upgrades_purchased + 1
       /\ (G.gold = F64From(10) /\ CostAt(SelectedIndex) = F64From(10)
             => after.gold = Zero)

\* the first Pickaxe, cost 10.0, bought from gold = 10.0
C7_Witness ==
    /\ G.total_clicks = 10
    /\ G.total_gold_earned = F64From(10)
    /\ Named("Pickaxe").owned = 1
    /\ G.total_upgrades_purchased = 1
    /\ G.gold = Zero

\* C8: in every reachable state where the tab is Achievements or the selected
\* upgrade costs more than gold, buy_selected changes nothing; and in no
\* reachable state does it fail: whenever an upgrade is selected, the lookup of
\* its index by name and type finds it.
C8_PurchaseNoOp ==
    /\ ( \/ G.current_tab = "Achievements"
         \/ SelectedIndex = 0
         \/ F64Gt(CostAt(SelectedIndex), G.gold) )
       => on_key(app, "Enter", clock) = app
    /\ \A k \in 1..Len(get_current_upgrades(G)) :
         \E i \in 1..Len(G.upgrades) :
            /\ G.upgrades[i].name = get_current_upgrades(G)[k].name
            /\ G.upgrades[i].upgrade_type = get_current_upgrades(G)[k].upgrade_type

\* the selected Pickaxe costs more than gold, though gold covers its base cost
C8_Witness ==
    /\ G.current_tab = "Passive"
    /\ G.selected_upgrade = 0
    /\ Named("Pickaxe").owned = 3
    /\ F64Ge(G.gold, Named("Pickaxe").base_cost)
    /\ F64Lt(G.gold, CostAt(1))

\* C9: in every reachable state, switch_tab to another tab sets current_tab
\* and resets selected_upgrade to 0, changing nothing else, and switch_tab to
\* the current tab changes nothing.
C9_SwitchTab ==
    \A key \in {"1", "2", "3"} :
       LET tab == CASE key = "1" -> "Passive"
                    [] key = "2" -> "Click"
                    [] key = "3" -> "Achievements"
       IN  IF G.current_tab # tab
           THEN on_key(app, key, clock) =
                  [app EXCEPT !.game_state.current_tab = tab,
                              !.game_state.selected_upgrade = 0]
           ELSE on_key(app, key, clock) = app

\* the Click tab with its last entry selected: reached from another tab, and a
\* press of "2" here must keep the selection
C9_Witness ==
    /\ G.current_tab = "Click"
    /\ G.selected_upgrade = 4

\* C10: right after a tick gold_per_second is the sum of base_production *
\* owned over the Passive upgrades and click_power is 1 + that sum over the
\* Click upgrades; and click_power >= 1 in every reachable state.
C10_DerivedRates ==
    /\ [][ Tick =>
             /\ G'.gold_per_second =
                  ProductionOf(G'.upgrades, "Passive", Len(G'.upgrades))
             /\ G'.click_power =
                  F64Add(F64From(1),
                         ProductionOf(G'.upgrades, "Click", Len(G'.upgrades))) ]_vars
    /\ [](F64Ge(G.click_power, F64From(1)))

\* a tick after the first Click upgrade was bought, one Pickaxe owned:
\* click_power is 2.0 and gold_per_second 0.1
C10_Witness ==
    /\ Named("Strong Arms").owned = 1
    /\ Named("Pickaxe").owned = 1
    /\ G.click_power = F64From(2)
    /\ G.gold_per_second = Literal(1, 10)

\* the state a tick handled now would leave
Ticked == on_tick(app, clock).game_state

\* the Passive upgrades other than this one are not owned
OnlyPassive(name) ==
    \A i \in 1..Len(G.upgrades) :
        G.upgrades[i].upgrade_type = "Passive" /\ G.upgrades[i].name # name
            => G.upgrades[i].owned = 0

\* C11: a tick at time now adds gold_per_second * delta to gold and to
\* total_gold_earned, where delta = max(0, now - last_update) in seconds and
\* gold_per_second is the rate that tick recomputes from the owned counts, and
\* it sets last_update to now; with no Passive upgrade owned the tick leaves
\* gold unchanged; with five Pickaxes (0.1 each) as the only Passive upgrades
\* owned, a tick after 2 s adds 1.0.
C11_TickAccrual ==
    LET ticked == Ticked
        rate   == ProductionOf(G.upgrades, "Passive", Len(G.upgrades))
        delta  == IF clock > G.last_update THEN clock - G.last_update ELSE 0
        earned == F64Mul(rate, as_secs_f64(delta))
    IN  /\ ticked.gold = F64Add(G.gold, earned)
        /\ ticked.total_gold_earned = F64Add(G.total_gold_earned, earned)
        /\ ticked.last_update = clock
        /\ rate = Zero => ticked.gold = G.gold
        /\ ( /\ Named("Pickaxe").owned = 5
             /\ OnlyPassive("Pickaxe")
             /\ delta = 2 * MsPerSec ) => ticked.gold = F64Add(G.gold, F64From(1))

\* five Pickaxes are the only income and the last tick is 2 s old: the tick
\* handled now adds 1.0
C11_Witness ==
    /\ Named("Pickaxe").owned = 5
    /\ OnlyPassive("Pickaxe")
    /\ clock - G.last_update = 2 * MsPerSec
    /\ Ticked.gold = F64Add(G.gold, F64From(1))
    /\ Ticked.gold_per_second = Literal(5, 10)

\* the aggregate an achievement's target is about, in state gs
Metric(a, gs) ==
    LET tag == a.achievement_type.tag
    IN  IF tag = "TotalGold" THEN gs.total_gold_earned
        ELSE IF tag = "GoldPerSecond" THEN gs.gold_per_second
        ELSE IF tag = "TotalClicks" THEN F64From(gs.total_clicks)
        ELSE IF tag = "ClickPower" THEN gs.click_power
        ELSE F64From(gs.total_upgrades_purchased)

\* C12: no key press changes an achievement (a click, a purchase, a move of
\* the selection, a tab switch and the help toggle leave every completed flag
\* as it was); and right after a tick every achievement whose metric, as that
\* tick computed it, has reached its target is completed, while no achievement
\* whose metric is below its target was newly completed by that tick.
C12_AchievementsEvaluatedByTick ==
    LET ticked == Ticked
    IN  /\ \A key \in KeyCode :
              on_key(app, key, clock).game_state.achievements = G.achievements
        /\ Len(ticked.achievements) = Len(G.achievements)
        /\ \A i \in 1..Len(G.achievements) :
              LET before == G.achievements[i]
                  after  == ticked.achievements[i]
                  metric == Metric(after, ticked)
              IN  /\ F64Ge(metric, after.target) => after.completed
                  /\ (F64Lt(metric, after.target) /\ ~before.completed) => ~after.completed
                  /\ [after EXCEPT !.completed = FALSE] =
                        [before EXCEPT !.completed = FALSE]

\* a tick has just completed First Steps, whose target total_gold_earned has
\* passed while gold is far below it, and has left Getting Rich open
C12_Witness ==
    /\ G.last_update = clock
    /\ G.achievements[1].completed
    /\ F64Ge(G.total_gold_earned, G.achievements[1].target)
    /\ F64Lt(G.total_gold_earned, F64Add(G.achievements[1].target, F64From(1)))
    /\ F64Lt(G.gold, G.achievements[1].target)
    /\ ~G.achievements[2].completed
    /\ F64Lt(Metric(G.achievements[2], G), G.achievements[2].target)

\* C13: in every step the catalog keeps its upgrades (their number, order,
\* names, types, costs, multipliers and productions) and no owned count goes
\* down; an owned count changes only in a successful purchase, the Enter key
\* handled with the Passive or Click tab current, that upgrade selected and
\* gold >= its cost, and then it grows by exactly 1.
C13_OwnedGrowsByPurchaseOnly ==
    [][ /\ Len(G'.upgrades) = Len(G.upgrades)
        /\ \A i \in 1..Len(G.upgrades) :
              /\ [G'.upgrades[i] EXCEPT !.owned = 0] = [G.upgrades[i] EXCEPT !.owned = 0]
              /\ G'.upgrades[i].owned >= G.upgrades[i].owned
              /\ G'.upgrades[i].owned # G.upgrades[i].owned
                    => /\ KeyEnter
                       /\ G.current_tab \in {"Passive", "Click"}
                       /\ i = SelectedIndex
                       /\ F64Ge(G.gold, CostAt(i))
                       /\ G'.upgrades[i].owned = G.upgrades[i].owned + 1 ]_vars

\* a fourth Pickaxe has been bought in the session that started with three
\* Pickaxes and a Shovel, after one more click made it affordable
C13_Witness ==
    /\ Named("Pickaxe").owned = 4
    /\ Named("Shovel").owned = 1
    /\ G.total_upgrades_purchased = 5
    /\ G.total_clicks > 99

\* base_cost * (cost_multiplier^n - 1) / (cost_multiplier - 1), evaluated in
\* f64 from left to right
GeometricSum(u, n) ==
    F64Div(F64Mul(u.base_cost, F64Sub(powi(u.cost_multiplier, n), F64From(1))),
           F64Sub(u.cost_multiplier, F64From(1)))

\* |a - b|
Distance(a, b) == IF F64Ge(a, b) THEN F64Sub(a, b) ELSE F64Sub(b, a)

\* C14, as the claim states it: after n calls of purchase on a catalog upgrade
\* that started with owned = 0, owned = n and the sum of the n returned costs
\* equals base_cost * (cost_multiplier^n - 1) / (cost_multiplier - 1).
C14_SumIsClosedForm ==
    /\ ledger.upgrade.owned = ledger.calls
    /\ ledger.paid = GeometricSum(ledger.upgrade, ledger.calls)

\* C14, amended: after n calls of purchase on a catalog upgrade that started
\* with owned = 0, owned = n, and the sum of the n returned costs agrees with
\* base_cost * (cost_multiplier^n - 1) / (cost_multiplier - 1) up to the
\* rounding of the f64 arithmetic: their difference is at most one part in
\* 10^9 of the closed form.
C14_SumNearClosedForm ==
    LET closed == GeometricSum(ledger.upgrade, ledger.calls)
    IN  /\ ledger.upgrade.owned = ledger.calls
        /\ F64Le(F64Mul(Distance(ledger.paid, closed), F64From(10 ^ 9)), closed)

\* Power Gloves bought once: 500.0 was paid, and the closed form
\* 500.0 * (1.2 - 1.0) / (1.2 - 1.0) is a different f64, less than 500.0
C14_Witness ==
    /\ ledger.upgrade.name = "Power Gloves"
    /\ ledger.calls = 1
    /\ ledger.upgrade.owned = 1
    /\ ledger.paid = F64From(500)
    /\ F64Lt(GeometricSum(ledger.upgrade, 1), ledger.paid)

\* C15: the cost of an upgrade is base_cost * cost_multiplier^owned, and, every
\* catalog multiplier being above 1, it is strictly increasing in owned: above
\* the cost at every smaller owned count and below the cost at the next one.
C15_CostGrowsGeometrically ==
    LET u    == ledger.upgrade
        cost == current_cost(u)
    IN  /\ cost = F64Mul(u.base_cost, powi(u.cost_multiplier, u.owned))
        /\ F64Gt(u.cost_multiplier, F64From(1))
        /\ F64Gt(current_cost([u EXCEPT !.owned = @ + 1]), cost)
        /\ \A k \in 0..(u.owned - 1) : F64Lt(current_cost([u EXCEPT !.owned = k]), cost)

\* the Diamond Drill Bit bought four times: its cost is the f64 product
\* 10000 * 1.2^4, within a hundredth of 20736
C15_Witness ==
    /\ ledger.upgrade.name = "Diamond Drill Bit"
    /\ ledger.upgrade.owned = 4
    /\ F64Lt(Distance(current_cost(ledger.upgrade), F64From(20736)), Literal(1, 100))

\* C16: the loop returns when, and only when, it has passed a press of 'q' to
\* on_key: that call sets should_quit and changes nothing else, the loop
\* returns before it draws or selects again, and from then on no tick and no
\* key press reaches the engine state; a tick never ends the loop, and the
\* only other way out is a failed terminal.draw.
C16_QuitEndsLoop ==
    /\ [](on_key(app, "q", clock) = [app EXCEPT !.should_quit = TRUE])
    /\ [](on_tick(app, clock).should_quit = app.should_quit)
    /\ [](pc = "done" <=> app.should_quit)
    /\ [](pc = "done" => dispatched # <<>> /\ dispatched[Len(dispatched)] = "q")
    /\ [][dispatched' = Append(dispatched, "q") => pc' = "done"]_vars
    /\ [][(pc' = "done" /\ pc # "done")
            => /\ dispatched' = Append(dispatched, "q")
               /\ G' = G ]_vars
    /\ [][(pc' = "failed" /\ pc # "failed") => (pc = "draw" /\ app' = app)]_vars
    /\ [][(pc = "done" \/ pc = "failed")
            => (app' = app /\ pc' = pc /\ dispatched' = dispatched)]_vars

\* the loop has returned after a click and the press of 'q', and the interval's
\* next tick has come due since without being handled
C16_Witness ==
    /\ pc = "done"
    /\ dispatched = <<" ", "q">>
    /\ G.total_clicks = 1
    /\ clock >= next_tick
    /\ G.last_update < clock

\* the tick and the press of key, both at the current clock reading, leave the
\* same App whichever is handled first; ticked is the App after the tick
Commute(ticked, key) ==
    on_key(ticked, key, clock) = on_tick(on_key(app, key, clock), clock)

\* C17, as the claim states it: from every reachable state a tick and a click,
\* a move of the selection, a tab switch or the help toggle leave the same
\* engine state in either order.
C17_TickCommutesWithKeys ==
    LET ticked == on_tick(app, clock)
    IN  \A key \in {" ", "Up", "Down", "h", "1", "2", "3"} : Commute(ticked, key)

\* C17, amended: from every reachable state a tick and a move of the
\* selection, a tab switch or the help toggle leave the same engine state in
\* either order.
C17_TickCommutesWithNavigation ==
    LET ticked == on_tick(app, clock)
    IN  \A key \in {"Up", "Down", "h", "1", "2", "3"} : Commute(ticked, key)

\* a tick that pays out is due while the second entry of the Passive tab is
\* selected: the tick and each navigation key change the state, in any order
C17_Witness ==
    /\ G.current_tab = "Passive"
    /\ G.selected_upgrade = 1
    /\ F64Gt(G.gold_per_second, Zero)
    /\ clock > G.last_update
    /\ F64Gt(Ticked.gold, G.gold)
    /\ \A key \in {"Up", "Down", "h", "2", "3"} : on_key(app, key, clock) # app

\* C18: in every reachable state with the Passive or Click tab current and the
\* selected upgrade affordable, buy_selected adds 1 to the owned count of the
\* upgrade that has selected_upgrade upgrades of the tab's type before it in the
\* master collection, and leaves every other entry of the collection as it was.
C18_PurchaseHitsSelectedUpgrade ==
    ( /\ G.current_tab \in {"Passive", "Click"}
      /\ SelectedIndex # 0
      /\ F64Ge(G.gold, CostAt(SelectedIndex)) )
    => LET after == on_key(app, "Enter", clock).game_state IN
       /\ G.upgrades[SelectedIndex].upgrade_type = G.current_tab
       /\ Cardinality({ j \in 1..(SelectedIndex - 1) :
                          G.upgrades[j].upgrade_type = G.current_tab })
             = G.selected_upgrade
       /\ after.upgrades = [G.upgrades EXCEPT ![SelectedIndex].owned = @ + 1]

\* the first entry of the Click tab, Strong Arms, the seventh upgrade of the
\* master collection, has been bought; the Pickaxe bought before it is the
\* only other upgrade owned
C18_Witness ==
    /\ G.current_tab = "Click"
    /\ G.selected_upgrade = 0
    /\ G.upgrades[7].name = "Strong Arms"
    /\ \A i \in 1..Len(G.upgrades) : G.upgrades[i].owned = (IF i \in {1, 7} THEN 1 ELSE 0)
    /\ G.total_upgrades_purchased = 2

\* C19: no key press writes gold_per_second or click_power: in every reachable
\* state the handler of every key leaves both as they were, so after a
\* purchase they still hold their values from before it, and a click that
\* follows the purchase before any tick pays the click_power from before it.
C19_RatesWrittenByTickOnly ==
    LET purchased == on_key(app, "Enter", clock)
        clicked   == on_key(purchased, " ", clock)
    IN  /\ \A key \in KeyCode :
              LET after == on_key(app, key, clock).game_state
              IN  /\ after.gold_per_second = G.gold_per_second
                  /\ after.click_power = G.click_power
        /\ clicked.game_state.total_clicks # G.total_clicks
              => clicked.game_state.gold = F64Add(purchased.game_state.gold, G.click_power)

\* Strong Arms was bought and a click handled before any tick: click_power is
\* still 1.0 and the click paid 1.0, although Strong Arms is owned
C19_Witness ==
    /\ Named("Strong Arms").owned = 1
    /\ G.click_power = F64From(1)
    /\ G.total_clicks = 36
    /\ F64Ge(G.gold, F64From(1))
    /\ F64Lt(G.gold, F64From(2))
    /\ G.last_update < G.last_click

\* C20: in every reachable state select_next adds 1 to selected_upgrade when
\* it is below the current tab's count - 1 and otherwise changes nothing,
\* select_previous subtracts 1 when it is above 0 and otherwise changes
\* nothing, and neither changes any other field; on a state whose lists are
\* empty (count 0) both leave selected_upgrade at 0.
C20_SelectionMoves ==
    LET down  == on_key(app, "Down", clock)
        up    == on_key(app, "Up", clock)
        empty == [G EXCEPT !.upgrades = <<>>, !.achievements = <<>>,
                           !.selected_upgrade = 0]
    IN  /\ down = IF G.selected_upgrade < ViewCount - 1
                  THEN [app EXCEPT !.game_state.selected_upgrade = @ + 1]
                  ELSE app
        /\ up = IF G.selected_upgrade > 0
                THEN [app EXCEPT !.game_state.selected_upgrade = @ - 1]
                ELSE app
        /\ select_next(empty) = empty
        /\ select_previous(empty) = empty

\* the selection has moved down to the last of the five Click upgrades, where
\* select_next stops, and select_previous moves it back up
C20_Witness ==
    /\ G.current_tab = "Click"
    /\ ViewCount = 5
    /\ G.selected_upgrade = 4
    /\ on_key(app, "Down", clock) = app
    /\ on_key(app, "Up", clock).game_state.selected_upgrade = 3

\* the sum of owned over the first i upgrades of the master collection
RECURSIVE OwnedUpTo(_, _)
OwnedUpTo(upgrades, i) ==
    IF i = 0 THEN 0 ELSE OwnedUpTo(upgrades, i - 1) + upgrades[i].owned

\* C21: in every reachable state total_upgrades_purchased is the sum of owned
\* over all upgrades, Passive and Click together.
C21_PurchasedIsSumOfOwned ==
    G.total_upgrades_purchased = OwnedUpTo(G.upgrades, Len(G.upgrades))

\* upgrades of both types are owned: Strong Arms was bought in the session
\* that had bought a Pickaxe, and the counter is 2
C21_Witness ==
    /\ Named("Pickaxe").owned = 1
    /\ Named("Strong Arms").owned = 1
    /\ G.total_upgrades_purchased = 2
    /\ G.total_clicks >= 35

\* C22: in every reachable state gold <= total_gold_earned; a tick and a
\* click add one and the same amount, never negative, to gold and to
\* total_gold_earned, and a purchase leaves total_gold_earned as it was and
\* does not raise gold.
C22_GoldAtMostEarned ==
    LET ticked    == Ticked
        accrued   == F64Mul(ticked.gold_per_second,
                            as_secs_f64(duration_since(clock, G.last_update)))
        clicked   == on_key(app, " ", clock).game_state
        reward    == IF clicked.total_clicks = G.total_clicks THEN Zero ELSE G.click_power
        purchased == on_key(app, "Enter", clock).game_state
    IN  /\ F64Le(G.gold, G.total_gold_earned)
        /\ F64Ge(accrued, Zero)
        /\ ticked.gold = F64Add(G.gold, accrued)
        /\ ticked.total_gold_earned = F64Add(G.total_gold_earned, accrued)
        /\ F64Ge(ticked.gold, G.gold)
        /\ F64Ge(reward, Zero)
        /\ clicked.gold = F64Add(G.gold, reward)
        /\ clicked.total_gold_earned = F64Add(G.total_gold_earned, reward)
        /\ F64Ge(clicked.gold, G.gold)
        /\ purchased.total_gold_earned = G.total_gold_earned
        /\ F64Le(purchased.gold, G.gold)

\* after five Pickaxes were paid for, a tick has accrued gold and a click has
\* added more: gold is above what the purchases left and below the total
C22_Witness ==
    /\ G.total_upgrades_purchased = 5
    /\ G.total_clicks = 69
    /\ G.last_update > StartClock
    /\ F64Gt(G.gold, F64From(2))
    /\ F64Lt(G.gold, G.total_gold_earned)

\* C23: in every step none of total_gold_earned, gold_per_second,
\* total_clicks, click_power and total_upgrades_purchased goes down; and in
\* every reachable state every completed achievement has its metric at or
\* above its target.
C23_MetricsNeverDecrease ==
    /\ [][ /\ F64Ge(G'.total_gold_earned, G.total_gold_earned)
           /\ F64Ge(G'.gold_per_second, G.gold_per_second)
           /\ G'.total_clicks >= G.total_clicks
           /\ F64Ge(G'.click_power, G.click_power)
           /\ G'.total_upgrades_purchased >= G.total_upgrades_purchased ]_vars
    /\ [](\A i \in 1..Len(G.achievements) :
             G.achievements[i].completed
                => F64Ge(Metric(G.achievements[i], G), G.achievements[i].target))

\* First Steps is completed, a fourth Pickaxe was bought and a tick has raised
\* gold_per_second to 0.9: the metrics have grown past the completion
C23_Witness ==
    /\ G.achievements[1].completed
    /\ Named("Pickaxe").owned = 4
    /\ G.gold_per_second = F64Add(F64Mul(Named("Pickaxe").base_production, F64From(4)),
                                  Named("Shovel").base_production)
    /\ F64Gt(G.total_gold_earned, G.achievements[1].target)
    /\ F64Lt(G.gold, F64From(1))

=============================================================================
